---- MODULE Spec2Model ----
(***************************************************************************)
(* Model of src/app.py: a Streamlit page that connects once to SQL Server  *)
(* (st.cache_resource), runs the text-field query through a pyodbc cursor  *)
(* (st.cache_data, ttl=600), and renders the result as a table with an     *)
(* optional CSV download.                                                   *)
(*                                                                         *)
(* Text is a sequence of one-character strings.  A cell of a result is a   *)
(* record [null, text]: SQL NULL (Python None) or a piece of text.         *)
(***************************************************************************)
EXTENDS Integers, Sequences, FiniteSets, TLC

VARIABLES
    now,          \* wall clock, in seconds
    connCache,    \* st.cache_resource entry of get_connection
    connectCalls, \* number of pyodbc.connect calls made so far
    conn,         \* module global conn of the latest script run
    dataCache,    \* st.cache_data entries of run_query, keyed by the query text
    driverLog,    \* history: every run of run_query's body that called conn.cursor()
    openCursors,  \* cursors opened by conn.cursor() and not closed
    ui            \* what the latest script run rendered

vars == <<now, connCache, connectCalls, conn, dataCache, driverLog, openCursors, ui>>

----------------------------------------------------------------------------
(* Bounds of the model *)

MaxClock == 600
MaxCalls == 2

(* Program constant: st.cache_data(ttl=600) *)
ttl == 600

(* The clock advances to just before, or exactly to, the end of a window. *)
Deltas == {ttl - 1, ttl}

----------------------------------------------------------------------------
(* Values *)

None == 0          \* conn is None
Unset == -1        \* before the first script run

Text(s) == [null |-> FALSE, text |-> s]
Null == [null |-> TRUE, text |-> <<>>]

(* pyodbc hands rows back as Row objects and the columns as 7-tuples       *)
(* (name, type_code, ...) in cursor.description.                           *)
Row(cells) == [row |-> cells]
Column(name) == [name |-> name, type_code |-> "str"]

Description(names) == [i \in 1..Len(names) |-> Column(names[i])]
Rows(rs) == [i \in 1..Len(rs) |-> Row(rs[i])]

(* The text-field contents the user submits: empty, whitespace only, a      *)
(* query, and the same query with leading whitespace.                       *)
TextInputs ==
    { <<>>, <<" ">>, <<"\n", " ">>, <<"q">>, <<" ", "q">> }

(* Result sets the database may answer with: [description, rows].          *)
Tables ==
    { [description |-> Description(<< <<"a">> >>), rows |-> Rows(<<>>)],
      [description |-> Description(<< <<"a">> >>),
       rows |-> Rows(<< <<Text(<<"x">>)>> >>)],
      [description |-> Description(<< <<"a">> >>),
       rows |-> Rows(<< <<Null>> >>)],
      [description |-> Description(<< <<>> >>),
       rows |-> Rows(<< <<Text(<<>>)>>, <<Text(<<"x", ",">>)>> >>)],
      [description |-> Description(<< <<"a">>, <<"b", ",">> >>),
       rows |-> Rows(<< <<Text(<<"\"">>), Text(<<"x">>)>>,
                        <<Text(<<"\n">>), Text(<<"x", "\"", "y">>)>> >>)],
      [description |-> Description(<< <<"b">>, <<"a">> >>),
       rows |-> Rows(<< <<Text(<<"y">>), Text(<<"x">>)>>,
                        <<Text(<<"x">>), Null>> >>)] }

(* What the driver does with one query: the step that raises, if any, the  *)
(* class of the exception, and the result set of a statement that ran.     *)
(* A statement with no result set leaves cursor.description None (falsy,   *)
(* as <<>> here) and fetchall raises pyodbc.ProgrammingError.              *)
Outcome(failAt, exc, description, rows) ==
    [failAt |-> failAt, exc |-> exc, description |-> description, rows |-> rows]

OneTable == [description |-> Description(<< <<"a">> >>),
             rows |-> Rows(<< <<Text(<<"x">>)>> >>)]

DriverOutcomes ==
    { Outcome(s, e, <<>>, <<>>) :
        s \in {"cursor", "execute"}, e \in {"pyodbc.Error", "Exception"} }
    \cup { Outcome("fetchall", "pyodbc.Error", <<>>, <<>>),
           Outcome("fetchall", "Exception", OneTable.description, <<>>),
           Outcome("close", "pyodbc.Error", OneTable.description, OneTable.rows) }
    \cup { Outcome("none", "none", t.description, t.rows) : t \in Tables }

NoOutcome == Outcome("unused", "none", <<>>, <<>>)

----------------------------------------------------------------------------
(* Messages rendered by st.error / st.warning / st.success / st.info *)

Msg(kind, what, arg) == [kind |-> kind, what |-> what, arg |-> arg]

(* pd.DataFrame *)
DataFrame(data, columns) == [columns |-> columns, data |-> data]
EmptyDataFrame == DataFrame(<<>>, <<>>)

(* df.empty: any axis of length 0 *)
empty_never(df) == FALSE

empty(df) == Len(df.columns) = 0 \/ Len(df.data) = 0

(* str.strip(): drop leading and trailing whitespace (the ASCII whitespace  *)
(* characters that TLA+ strings can spell)                                  *)
IsSpace(c) == c \in {" ", "\t", "\n", "\r", "\f"}

RECURSIVE lstrip(_)
lstrip(s) ==
    IF s = <<>> THEN <<>>
    ELSE IF IsSpace(Head(s)) THEN lstrip(Tail(s)) ELSE s

RECURSIVE rstrip(_)
rstrip(s) ==
    IF s = <<>> THEN <<>>
    ELSE IF IsSpace(s[Len(s)]) THEN rstrip(SubSeq(s, 1, Len(s) - 1)) ELSE s

strip_missing(s) == s

strip(s) == rstrip(lstrip(s))

----------------------------------------------------------------------------
(* init_connection: pyodbc.connect inside try/except.  connectOk is the     *)
(* driver's answer; handle identifies the connection object it returns.     *)
init_connection_keeps_handle(connectOk, handle) ==
    [value |-> handle,
     msgs |-> IF connectOk THEN <<>>
              ELSE <<Msg("error", "Error connecting to database", 0)>>]

init_connection(connectOk, handle) ==
    IF connectOk
    THEN [value |-> handle, msgs |-> <<>>]
    ELSE [value |-> None,
          msgs |-> <<Msg("error", "Error connecting to database", 0)>>]

(* get_connection under st.cache_resource: the first call computes and      *)
(* stores the value (None included) with the messages it rendered; later    *)
(* calls return the stored value and replay the messages.                   *)
get_connection_uncached(cache, connectOk, handle) ==
    LET r == init_connection(connectOk, handle)
    IN [value |-> r.value, msgs |-> r.msgs, called |-> TRUE]

get_connection(cache, connectOk, handle) ==
    IF cache.present
    THEN [value |-> cache.value, msgs |-> cache.msgs, called |-> FALSE]
    ELSE LET r == init_connection(connectOk, handle)
         IN [value |-> r.value, msgs |-> r.msgs, called |-> TRUE]

----------------------------------------------------------------------------
(* run_query *)

Result(raised, df, msgs, opened, closed, executed) ==
    [raised |-> raised, df |-> df, msgs |-> msgs,
     opened |-> opened, closed |-> closed, executed |-> executed, cursors |-> 1]

(* A return before conn.cursor() is reached. *)
NoCursor(df, msgs) ==
    [raised |-> FALSE, df |-> df, msgs |-> msgs,
     opened |-> 0, closed |-> 0, executed |-> <<>>, cursors |-> 0]

(* The two except clauses: pyodbc.Error, then Exception. *)
except_pyodbc_only(exc, opened, closed, executed) ==
    IF exc = "pyodbc.Error"
    THEN Result(FALSE, EmptyDataFrame, <<Msg("error", "Database error", 0)>>,
                opened, closed, executed)
    ELSE Result(TRUE, EmptyDataFrame, <<>>, opened, closed, executed)

except(exc, opened, closed, executed) ==
    IF exc = "pyodbc.Error"
    THEN Result(FALSE, EmptyDataFrame, <<Msg("error", "Database error", 0)>>,
                opened, closed, executed)
    ELSE Result(FALSE, EmptyDataFrame, <<Msg("error", "Error executing query", 0)>>,
                opened, closed, executed)

(* columns = [column[0] for column in cursor.description] if cursor.description else [] *)
columns_reversed(description) ==
    IF description # <<>>
    THEN [i \in 1..Len(description) |-> description[Len(description) + 1 - i].name]
    ELSE <<>>

columns_of(description) ==
    IF description # <<>>
    THEN [i \in 1..Len(description) |-> description[i].name]
    ELSE <<>>

(* data = [list(row) for row in rows] *)
data_of(rows) == [i \in 1..Len(rows) |-> rows[i].row]

(* The body of run_query, for the driver behaviour o. *)
run_query_body(c, query, o) ==
    IF c = None
    THEN NoCursor(EmptyDataFrame,
                  <<Msg("error", "Database connection is not established", 0)>>)
    ELSE IF o.failAt = "cursor" THEN except(o.exc, 0, 0, <<>>)
    ELSE IF o.failAt = "execute" THEN except(o.exc, 1, 0, <<query>>)
    ELSE LET columns == columns_of(o.description)
         IN IF o.failAt = "fetchall" THEN except(o.exc, 1, 0, <<query>>)
            ELSE IF o.failAt = "close" THEN except(o.exc, 1, 0, <<query>>)
            ELSE LET rows == o.rows
                 IN IF rows # <<>> /\ columns # <<>>
                    THEN Result(FALSE, DataFrame(data_of(rows), columns), <<>>,
                                1, 1, <<query>>)
                    ELSE Result(FALSE, EmptyDataFrame, <<>>, 1, 1, <<query>>)

(* st.cache_data(ttl=600): entries are keyed by the argument and live for   *)
(* ttl seconds from the moment they were stored.                            *)
NoEntry == [present |-> FALSE, value |-> EmptyDataFrame, msgs |-> <<>>, at |-> 0]

cache_key_stripped(query) == strip(query)

cache_key(query) == query

cache_never_valid(entry, t) == FALSE

cache_valid(entry, t) == entry.present /\ t < entry.at + ttl

run_query(cache, t, c, query, o) ==
    LET entry == cache[cache_key(query)]
    IN IF cache_valid(entry, t)
       THEN [hit |-> TRUE, r |-> NoCursor(entry.value, entry.msgs)]
       ELSE [hit |-> FALSE, r |-> run_query_body(c, query, o)]

----------------------------------------------------------------------------
(* df.to_csv(index=False): a header record and one record per row, fields   *)
(* separated by commas, quoted when they hold a comma, a quote or a line    *)
(* break (quotes doubled), None written as the empty field, a record that   *)
(* is one empty field written as "", each record ended by a line break.     *)

NeedsQuote(s) == \E i \in 1..Len(s) : s[i] \in {",", "\"", "\n", "\r"}

RECURSIVE double_quotes(_)
double_quotes(s) ==
    IF s = <<>> THEN <<>>
    ELSE IF Head(s) = "\"" THEN <<"\"", "\"">> \o double_quotes(Tail(s))
    ELSE <<Head(s)>> \o double_quotes(Tail(s))

csv_field_unquoted(s) == s

csv_field(s) ==
    IF NeedsQuote(s) THEN <<"\"">> \o double_quotes(s) \o <<"\"">> ELSE s

RECURSIVE csv_join(_)
csv_join(fields) ==
    IF Len(fields) = 1 THEN csv_field(fields[1])
    ELSE csv_field(fields[1]) \o <<",">> \o csv_join(Tail(fields))

csv_record(fields) ==
    IF Len(fields) = 1 /\ fields[1] = <<>>
    THEN <<"\"", "\"", "\n">>
    ELSE csv_join(fields) \o <<"\n">>

(* na_rep='' *)
cell_str(cell) == IF cell.null THEN <<>> ELSE cell.text

RECURSIVE csv_records(_)
csv_records(data) ==
    IF data = <<>> THEN <<>>
    ELSE csv_record([j \in 1..Len(data[1]) |-> cell_str(data[1][j])])
         \o csv_records(Tail(data))

to_csv(df) == csv_record(df.columns) \o csv_records(df.data)

----------------------------------------------------------------------------
(* The "Execute Query" handler. *)

Rendered(ranQuery, hit, crashed, df, msgs, tableShown, downloadShown, csv, r) ==
    [ranQuery |-> ranQuery, hit |-> hit, crashed |-> crashed, df |-> df,
     msgs |-> msgs, tableShown |-> tableShown, table |-> IF tableShown THEN df ELSE EmptyDataFrame,
     downloadShown |-> downloadShown, csv |-> csv,
     file_name |-> IF downloadShown THEN "query_results.csv" ELSE "",
     stored |-> ranQuery /\ ~hit /\ ~crashed, runMsgs |-> r.msgs,
     opened |-> r.opened, closed |-> r.closed, executed |-> r.executed,
     cursors |-> r.cursors]

NoRun == NoCursor(EmptyDataFrame, <<>>)

NotClicked == Rendered(FALSE, FALSE, FALSE, EmptyDataFrame, <<>>, FALSE, FALSE, <<>>, NoRun)

Handler(c, query, enable_download, cache, t, o) ==
    IF c = None
    THEN Rendered(FALSE, FALSE, FALSE, EmptyDataFrame,
                  <<Msg("error", "Database connection failed. Please check your credentials.", 0)>>,
                  FALSE, FALSE, <<>>, NoRun)
    ELSE IF strip(query) = <<>>
    THEN Rendered(FALSE, FALSE, FALSE, EmptyDataFrame,
                  <<Msg("warning", "Please enter a SQL query.", 0)>>,
                  FALSE, FALSE, <<>>, NoRun)
    ELSE LET q == run_query(cache, t, c, query, o)
             df == q.r.df
         IN IF q.r.raised
            THEN Rendered(TRUE, q.hit, TRUE, EmptyDataFrame, q.r.msgs,
                          FALSE, FALSE, <<>>, q.r)
            ELSE IF ~empty(df)
            THEN Rendered(TRUE, q.hit, FALSE, df,
                          q.r.msgs \o <<Msg("success", "Query returned rows.", Len(df.data))>>,
                          TRUE, enable_download,
                          IF enable_download THEN to_csv(df) ELSE <<>>, q.r)
            ELSE Rendered(TRUE, q.hit, FALSE, df,
                          q.r.msgs \o <<Msg("info", "Query returned no results or encountered an error.", 0)>>,
                          FALSE, FALSE, <<>>, q.r)

----------------------------------------------------------------------------
(* One run of the script, top to bottom: conn = get_connection(), the       *)
(* widgets, and the handler when the button was clicked.                    *)

LogEntries(h, t, c, text) ==
    [i \in 1..h.cursors |->
        [text |-> text, executed |-> h.executed, at |-> t, conn |-> c,
         returned |-> h.df, crashed |-> h.crashed]]

(* The driver answers only when it is called: pyodbc.connect on a miss of   *)
(* the connection cache, the cursor when run_query gets to conn.cursor().   *)
ConnectAnswers ==
    IF get_connection(connCache, TRUE, connectCalls + 1).called THEN BOOLEAN ELSE {TRUE}

DriverAnswers(clicked, c, text) ==
    LET probe == IF clicked THEN Handler(c, text, FALSE, dataCache, now, NoOutcome)
                 ELSE NotClicked
    IN IF probe.ranQuery /\ ~probe.hit /\ c # None THEN DriverOutcomes ELSE {NoOutcome}

RunScript(clicked, text, enable_download) ==
    \E connectOk \in ConnectAnswers :
    LET g == get_connection(connCache, connectOk, connectCalls + 1)
        c == g.value
    IN \E o \in DriverAnswers(clicked, c, text) :
       LET h == IF clicked THEN Handler(c, text, enable_download, dataCache, now, o)
                ELSE NotClicked
       IN /\ Len(driverLog) + h.cursors <= MaxCalls
          /\ connCache' = IF g.called
                          THEN [present |-> TRUE, value |-> g.value, msgs |-> g.msgs,
                                failed |-> ~connectOk]
                          ELSE connCache
          /\ connectCalls' = connectCalls + (IF g.called THEN 1 ELSE 0)
          /\ conn' = c
          /\ dataCache' = IF h.stored
                          THEN [dataCache EXCEPT ![cache_key(text)] =
                                  [present |-> TRUE, value |-> h.df,
                                   msgs |-> h.runMsgs, at |-> now]]
                          ELSE dataCache
          /\ driverLog' = driverLog \o LogEntries(h, now, c, text)
          /\ openCursors' = openCursors + h.opened - h.closed
          /\ ui' = [at |-> now, clicked |-> clicked, query |-> text,
                    enable_download |-> enable_download,
                    conn |-> c, connected |-> g.called, connMsgs |-> g.msgs,
                    outcome |-> o, h |-> h]
          /\ now' = now

Init ==
    /\ now = 0
    /\ connCache = [present |-> FALSE, value |-> None, msgs |-> <<>>, failed |-> FALSE]
    /\ connectCalls = 0
    /\ conn = Unset
    /\ dataCache = [q \in TextInputs |-> NoEntry]
    /\ driverLog = <<>>
    /\ openCursors = 0
    /\ ui = [at |-> 0, clicked |-> FALSE, query |-> <<>>, enable_download |-> TRUE,
             conn |-> Unset, connected |-> FALSE, connMsgs |-> <<>>,
             outcome |-> NoOutcome, h |-> NotClicked]

(* The page is loaded or a sidebar widget changes: the script reruns with   *)
(* the button not clicked, and the widget values are read but not used.     *)
PageRun == RunScript(FALSE, <<>>, TRUE)

(* The user clicks "Execute Query" on a rendered page. *)
ExecuteClick ==
    /\ conn # Unset
    /\ \E text \in TextInputs, enable_download \in BOOLEAN :
        RunScript(TRUE, text, enable_download)

(* Time passes. *)
Tick ==
    /\ \E d \in Deltas : now + d <= MaxClock /\ now' = now + d
    /\ UNCHANGED <<connCache, connectCalls, conn, dataCache, driverLog, openCursors, ui>>

Next == PageRun \/ ExecuteClick \/ Tick

Spec == Init /\ [][Next]_vars

----------------------------------------------------------------------------
(* Reading a CSV text back (RFC 4180, as csv.reader does): the sequence of  *)
(* records, each a sequence of fields.                                      *)

RECURSIVE ParseCsv(_, _, _, _, _, _)
ParseCsv(s, i, st, field, rec, recs) ==
    IF i > Len(s)
    THEN IF st = "start_record" THEN recs ELSE Append(recs, Append(rec, field))
    ELSE LET ch == s[i]
             endField == ParseCsv(s, i + 1, "start_field", <<>>, Append(rec, field), recs)
             endRecord == ParseCsv(s, i + 1, "start_record", <<>>, <<>>,
                                   Append(recs, Append(rec, field)))
             more(next) == ParseCsv(s, i + 1, next, Append(field, ch), rec, recs)
         IN CASE st = "start_record" /\ ch = "\n" ->
                    ParseCsv(s, i + 1, "start_record", <<>>, <<>>, Append(recs, <<>>))
              [] st \in {"start_record", "start_field"} /\ ch = "\"" ->
                    ParseCsv(s, i + 1, "in_quoted", <<>>, rec, recs)
              [] st = "in_quoted" /\ ch = "\"" ->
                    ParseCsv(s, i + 1, "quote_in_quoted", field, rec, recs)
              [] st = "in_quoted" /\ ch # "\"" -> more("in_quoted")
              [] st = "quote_in_quoted" /\ ch = "\"" -> more("in_quoted")
              [] st # "in_quoted" /\ ch = "," -> endField
              [] st # "in_quoted" /\ ch = "\n" /\ st # "start_record" -> endRecord
              [] OTHER -> more("in_field")

Decode(csv) == ParseCsv(csv, 1, "start_record", <<>>, <<>>, <<>>)

Has(msgs, kind, what) == \E i \in 1..Len(msgs) : msgs[i].kind = kind /\ msgs[i].what = what

AllSpace(s) == \A i \in 1..Len(s) : IsSpace(s[i])

ConnectError == "Error connecting to database"
ConnectionFailed == "Database connection failed. Please check your credentials."
NoResults == "Query returned no results or encountered an error."
ReturnedRows == "Query returned rows."

DriverFailed == ui.outcome.failAt \in {"cursor", "execute", "fetchall", "close"}

----------------------------------------------------------------------------
(* C1: once pyodbc.connect has failed, the failure is shown as an error, no *)
(* script run crashes, every Execute click shows the connection error and   *)
(* stops before run_query, and the driver's cursor and execute are never    *)
(* called.                                                                  *)
C1_FailedConnectionShortCircuits ==
    connCache.present /\ connCache.failed =>
        /\ conn = None
        /\ driverLog = <<>> /\ openCursors = 0
        /\ ui.outcome = NoOutcome
        /\ ui.h.cursors = 0 /\ ui.h.executed = <<>>
        /\ ~ui.h.ranQuery /\ ~ui.h.crashed
        /\ ~ui.h.tableShown /\ ~ui.h.downloadShown
        /\ (ui.connected => Has(ui.connMsgs, "error", ConnectError))
        /\ (ui.clicked => Has(ui.h.msgs, "error", ConnectionFailed))

C1_Witness ==
    /\ connCache.present /\ connCache.failed
    /\ ~ui.connected
    /\ ui.clicked /\ ui.query = <<"q">>

(* C2: an Execute click whose text is empty or all whitespace never calls   *)
(* run_query or the driver and shows neither table nor download control.    *)
C2_BlankQueryRejected ==
    ui.clicked /\ AllSpace(ui.query) =>
        /\ ~ui.h.ranQuery
        /\ ui.h.cursors = 0 /\ ui.h.executed = <<>>
        /\ ui.outcome = NoOutcome
        /\ ~ui.h.tableShown /\ ~ui.h.downloadShown
        /\ (conn # None => Has(ui.h.msgs, "warning", "Please enter a SQL query."))

C2_Witness ==
    ui.clicked /\ ui.query = <<"\n", " ">> /\ conn # None /\ conn # Unset

(* C3: the driver is called at most once per query text per 600-second      *)
(* window, and a submission answered from the cache shows the result the    *)
(* call of that window returned.                                            *)
C3_CachedWithinWindow ==
    /\ \A i, j \in 1..Len(driverLog) :
          i < j /\ driverLog[i].text = driverLog[j].text
              => driverLog[j].at - driverLog[i].at >= ttl
    /\ \A i \in 1..Len(driverLog) : Len(driverLog[i].executed) <= 1
    /\ (ui.h.ranQuery /\ ui.h.hit =>
          /\ ui.h.cursors = 0 /\ ui.h.executed = <<>>
          /\ \E i \in 1..Len(driverLog) :
                /\ driverLog[i].text = ui.query
                /\ driverLog[i].at <= ui.at /\ ui.at - driverLog[i].at < ttl
                /\ ui.h.df = driverLog[i].returned
                /\ ui.h.tableShown = (Len(driverLog[i].returned.data) > 0))

C3_Witness ==
    /\ ui.h.ranQuery /\ ui.h.hit /\ ui.h.tableShown
    /\ ui.at = ttl - 1
    /\ Len(driverLog) = 1 /\ driverLog[1].at = 0

(* C4: a query answered with N >= 1 rows and columns C shows a table with   *)
(* exactly the N rows in the driver's order and the columns C in their      *)
(* order, and the success message reports N.                                *)
C4_TableMatchesResult ==
    ui.outcome.failAt = "none" /\ Len(ui.outcome.rows) >= 1 =>
        LET N == Len(ui.outcome.rows)
            C == ui.outcome.description
        IN /\ ui.h.tableShown
           /\ Len(ui.h.table.data) = N
           /\ Len(ui.h.table.columns) = Len(C)
           /\ \A j \in 1..Len(C) : ui.h.table.columns[j] = C[j].name
           /\ \A i \in 1..N : ui.h.table.data[i] = ui.outcome.rows[i].row
           /\ \E k \in 1..Len(ui.h.msgs) :
                 ui.h.msgs[k] = Msg("success", ReturnedRows, N)

C4_Witness ==
    /\ ui.outcome.failAt = "none"
    /\ Len(ui.outcome.rows) = 2 /\ Len(ui.outcome.description) = 2
    /\ ui.outcome.description[1].name = <<"b">>

(* C5: when run_query returns an empty result (a query answered with zero   *)
(* rows included) the info message is shown and no success message, table   *)
(* or download control, whatever "Enable CSV download" is.                  *)
C5_EmptyResultShowsInfoOnly ==
    /\ (ui.h.ranQuery /\ ~ui.h.crashed
           /\ (Len(ui.h.df.data) = 0 \/ Len(ui.h.df.columns) = 0) =>
          /\ Has(ui.h.msgs, "info", NoResults)
          /\ ~Has(ui.h.msgs, "success", ReturnedRows)
          /\ ~ui.h.tableShown /\ ~ui.h.downloadShown)
    /\ (ui.outcome.failAt = "none" /\ Len(ui.outcome.rows) = 0 =>
          /\ ui.h.ranQuery /\ Len(ui.h.df.data) = 0
          /\ Has(ui.h.msgs, "info", NoResults))

C5_Witness ==
    /\ ui.outcome.failAt = "none" /\ Len(ui.outcome.rows) = 0
    /\ Len(ui.outcome.description) = 1
    /\ ui.enable_download

(* C6: a failure of conn.cursor(), execute, fetchall or close is caught in  *)
(* run_query: nothing escapes, an error message is shown, the result is     *)
(* empty, the handler shows the info message and no table, and execute is   *)
(* called at most once for the submission.                                  *)
C6_QueryFailureCaught ==
    DriverFailed =>
        /\ ui.h.ranQuery /\ ~ui.h.crashed
        /\ Has(ui.h.msgs, "error",
               IF ui.outcome.exc = "pyodbc.Error" THEN "Database error"
               ELSE "Error executing query")
        /\ ui.h.df = EmptyDataFrame
        /\ Has(ui.h.msgs, "info", NoResults)
        /\ ~ui.h.tableShown /\ ~ui.h.downloadShown
        /\ ui.h.cursors = 1 /\ Len(ui.h.executed) <= 1
        /\ dataCache[ui.query].present /\ dataCache[ui.query].value = EmptyDataFrame

C6_Witness ==
    ui.outcome.failAt = "execute" /\ ui.outcome.exc = "Exception"

(* The download control: only with a table and the option checked, always   *)
(* under the fixed file name.                                               *)
DownloadOffered ==
    /\ ui.h.downloadShown = (ui.h.tableShown /\ ui.enable_download /\ ui.clicked)
    /\ (ui.h.downloadShown => ui.h.file_name = "query_results.csv")

(* C7 as stated: the decoded CSV gives the table's column names and the     *)
(* table's rows, cell for cell.                                             *)
C7_CsvReproducesTable ==
    /\ DownloadOffered
    /\ (ui.h.downloadShown =>
          LET d == Decode(ui.h.csv)
              t == ui.h.table
          IN /\ Len(d) = Len(t.data) + 1
             /\ d[1] = t.columns
             /\ \A i \in 1..Len(t.data) :
                   /\ Len(d[i + 1]) = Len(t.data[i])
                   /\ \A j \in 1..Len(t.data[i]) : Text(d[i + 1][j]) = t.data[i][j])

(* C7 amended: the decoded CSV gives the table's column names and rows in   *)
(* order, every text cell as its text and every NULL cell as the empty      *)
(* text.                                                                    *)
C7_CsvReproducesTableNullAsEmpty ==
    /\ DownloadOffered
    /\ (ui.h.downloadShown =>
          LET d == Decode(ui.h.csv)
              t == ui.h.table
          IN /\ Len(d) = Len(t.data) + 1
             /\ d[1] = t.columns
             /\ \A i \in 1..Len(t.data) :
                   /\ Len(d[i + 1]) = Len(t.data[i])
                   /\ \A j \in 1..Len(t.data[i]) :
                         d[i + 1][j] = IF t.data[i][j].null THEN <<>>
                                       ELSE t.data[i][j].text)

C7_Witness ==
    /\ ui.h.downloadShown
    /\ Len(ui.h.table.data) = 2 /\ Len(ui.h.table.columns) = 2
    /\ ui.h.table.data[1][1] = Text(<<"\"">>)
    /\ ui.h.table.columns[2] = <<"b", ",">>

(* C8: pyodbc.connect is called at most once; every script run and every    *)
(* driver call uses the cached value, the cached None included.             *)
C8_ConnectionCachedOnce ==
    /\ connectCalls <= 1
    /\ (conn # Unset => connCache.present /\ conn = connCache.value)
    /\ (connCache.present => connectCalls = 1)
    /\ (connCache.present /\ connCache.failed => conn = None)
    /\ (connCache.present /\ ~connCache.failed => conn = 1)
    /\ \A i \in 1..Len(driverLog) : driverLog[i].conn = connCache.value

C8_Witness ==
    /\ connectCalls = 1
    /\ Len(driverLog) = 2
    /\ ~ui.connected

(* C9: cursor.execute receives exactly the text-field content, surrounding  *)
(* whitespace included, and the cache is keyed by that same text: a         *)
(* submission is answered from the cache only if that exact text was run.   *)
C9_QueryPassedUnmodified ==
    /\ \A i \in 1..Len(driverLog) :
          \A k \in 1..Len(driverLog[i].executed) :
              driverLog[i].executed[k] = driverLog[i].text
    /\ \A k \in 1..Len(ui.h.executed) : ui.h.executed[k] = ui.query
    /\ \A q \in TextInputs :
          dataCache[q].present =>
              \E i \in 1..Len(driverLog) :
                  driverLog[i].text = q /\ driverLog[i].at = dataCache[q].at
    /\ (ui.h.ranQuery /\ ui.h.hit =>
          \E i \in 1..Len(driverLog) : driverLog[i].text = ui.query)

C9_Witness ==
    /\ dataCache[<<"q">>].present /\ dataCache[<<" ", "q">>].present
    /\ dataCache[<<"q">>].at = dataCache[<<" ", "q">>].at
    /\ Len(driverLog) = 2
    /\ driverLog[1].executed = << <<"q">> >>
    /\ driverLog[2].executed = << <<" ", "q">> >>

(* C10: every cursor run_query opened is closed when run_query has          *)
(* returned, on the exception paths too.                                    *)
C10_EveryCursorClosed ==
    /\ openCursors = 0
    /\ ui.h.opened = ui.h.closed

====
